---- MODULE Spec2Model ----
(***************************************************************************)
(* Model of examples/summarization/bart/finetune.py: the construction of   *)
(* a SummarizationDistiller (layer selection, student initialisation,      *)
(* freezing), its distillation step and loss, and the evaluation hooks of  *)
(* SummarizationTrainer.                                                   *)
(*                                                                         *)
(* A model (teacher or student) is a set of parameters.  A parameter is    *)
(* named <<owner, group, index>>; `weights' maps each existing parameter   *)
(* to an abstract value and `requires_grad' to its trainable flag.         *)
(* Tensors are sequences: a batch of token ids is a sequence of rows, a    *)
(* logit tensor is batch x position x vocabulary.                          *)
(*                                                                         *)
(* Spec      runs SummarizationDistiller.__init__ line by line.            *)
(* SpecTrain runs distillation steps and optimizer updates on the          *)
(*           distiller __init__ leaves behind.                             *)
(* SpecLoss  runs calc_ce_loss twice, on logits that differ in one         *)
(*           position.                                                     *)
(* SpecEval  runs the validation and test hooks of both classes.           *)
(***************************************************************************)
EXTENDS Integers, Sequences, FiniteSets, TLC

\* ---- bounds of the model ------------------------------------------------
MaxTeacherLayers == 16
MaxCheckpoints == 2
MaxBatch == 2
MaxLen == 2
MaxSeq == 2
VocabSize == 2
MaxSteps == 2
MaxOutputs == 2
MaxEpochs == 1

\* ---- value domains drawn from -------------------------------------------
None == "None"
Tokens == {0, 1}
AlphaValues == {0, 1, 4}
LossValues == {1, 3}
LogitSeeds == {0, 1}
PerturbValues == {7, 9}
TrainDepths == {4}

\* ---- program constants --------------------------------------------------
ROUGE_KEYS == <<"rouge1", "rouge2", "rougeL">>
loss_names == <<"loss", "ce_loss", "mlm_loss">>
FixedLayers == <<0, 2, 4, 7, 9, 11>>
SpecialDepth == 6
temperature == 2
IgnoreIndex == 0 - 100

VARIABLES
  pc,              \* position inside SummarizationDistiller.__init__
  teacher_cfg,     \* teacher.config (decoder_layers), or None
  student_cfg,     \* student_cfg (decoder_layers), or None
  student_updates, \* the dict student_updates, or None
  layers_to_copy,  \* the list layers_to_copy, or None
  weights,         \* parameter -> value, for every parameter that exists
  weights0,        \* the teacher's weights as loaded by from_pretrained
  requires_grad,   \* parameter -> trainable flag
  saved,           \* what save_pretrained wrote: student weights, or None
  attached,        \* TRUE once self.model.teacher = teacher ran
  alpha_ce,        \* self.alpha_ce
  alpha_mlm,       \* self.alpha_mlm
  \* -- a training run of the distiller
  tpc,             \* "idle", or "stepped" once training_step returned
  pad_token_id,    \* self.tokenizer.pad_token_id
  batch,           \* the batch dict held by the caller of the step
  batch0,          \* the target ids of the batch as handed to the step
  y_ids,           \* decoder input built by _step
  lm_labels,       \* labels built by _step
  sloss,           \* the student's supervised loss (student forward)
  loss_ce,         \* the soft-target loss returned by calc_ce_loss
  step_out,        \* the dict returned by training_step
  tape,            \* parameters the recorded autograd graph reaches
  teacher_no_grad, \* TRUE when the last teacher forward ran under no_grad
  global_step,     \* optimizer updates done
  \* -- two calls of calc_ce_loss
  lpc,             \* "inputs", "perturbed", "done"
  mask,            \* the padding mask argument (TRUE at padding), or None
  sA, tA,          \* student and teacher logits of the first call
  sB, tB,          \* student and teacher logits of the second call
  outA, outB,      \* what the two calls returned
  \* -- the evaluation hooks
  epc,             \* "run", or "KeyError" once a hook raised
  cls,             \* the class of self
  val_outputs,     \* outputs of validation_step collected this epoch
  test_outputs,    \* outputs of test_step collected this epoch
  metrics,         \* self.metrics
  err              \* the key a hook failed to find, or None

ctorVars == <<pc, teacher_cfg, student_cfg, student_updates, layers_to_copy,
              weights, weights0, requires_grad, saved, attached, alpha_ce,
              alpha_mlm>>

trainVars == <<tpc, pad_token_id, batch, batch0, y_ids, lm_labels, sloss,
               loss_ce, step_out, tape, teacher_no_grad, global_step>>

lossVars == <<lpc, mask, sA, tA, sB, tB, outA, outB>>

evalVars == <<epc, cls, val_outputs, test_outputs, metrics, err>>

vars == <<ctorVars, trainVars, lossVars, evalVars>>

\* ---- helpers ------------------------------------------------------------
Min(a, b) == IF a < b THEN a ELSE b

\* list(range(n))
Range(n) == [i \in 1..n |-> i - 1]

\* s[::2]: the first element, then every second one
RECURSIVE SliceStep2(_)
SliceStep2(s) ==
  IF s = <<>> THEN <<>>
  ELSE IF Len(s) = 1 THEN s
  ELSE <<s[1]>> \o SliceStep2(SubSeq(s, 3, Len(s)))

\* ---- the parameters of the modules the code names -----------------------
\* model.decoder.layers
LayerParams(owner, n) == {<<owner, "layers", i>> : i \in 1..n}

\* model.shared
SharedParams(owner) == {<<owner, "shared", 0>>}

\* model.encoder
EncoderParams(owner) == {<<owner, "encoder", 0>>}

\* model.decoder.embed_positions
EmbedPositionsParams(owner) == {<<owner, "embed_positions", 0>>}

\* model.decoder.embed_tokens
EmbedTokensParams(owner) == {<<owner, "embed_tokens", 0>>}

\* model.decoder: its embeddings, its layers and its normalization
DecoderParams(owner, n) ==
  EmbedTokensParams(owner) \cup EmbedPositionsParams(owner)
    \cup {<<owner, "layernorm_embedding", 0>>} \cup LayerParams(owner, n)

\* every parameter of a model
ModelParams(owner, n) ==
  SharedParams(owner) \cup EncoderParams(owner) \cup DecoderParams(owner, n)

GroupCode(g) ==
  CASE g = "shared" -> 1000
    [] g = "encoder" -> 2000
    [] g = "embed_positions" -> 3000
    [] g = "layernorm_embedding" -> 4000
    [] g = "embed_tokens" -> 5000
    [] OTHER -> 0

\* BartForConditionalGeneration.from_pretrained: every parameter of the
\* checkpoint has its own value
from_pretrained(ckpt, n) ==
  [p \in ModelParams("teacher", n) |-> GroupCode(p[2]) + 10 * p[3] + ckpt]

\* BartForConditionalGeneration(student_cfg): freshly initialised weights
NewModel(owner, n) == [p \in ModelParams(owner, n) |-> 0]

\* f extended/overridden by g
Merge(f, g) ==
  [p \in DOMAIN f \cup DOMAIN g |-> IF p \in DOMAIN g THEN g[p] ELSE f[p]]

\* ---- layer selection (lines 212-216) -----------------------------------
StudentUpdates(cfg) == [decoder_layers |-> cfg.decoder_layers \div 2]

\* the selection with the stride starting at index 1 ([1::2])
SelectLayers_offset(cfg) ==
  IF StudentUpdates(cfg).decoder_layers = SpecialDepth
    THEN FixedLayers
    ELSE SliceStep2(Tail(Range(cfg.decoder_layers)))

\* lines 213-216
SelectLayers(cfg) ==
  IF StudentUpdates(cfg).decoder_layers = SpecialDepth
    THEN FixedLayers
    ELSE SliceStep2(Range(cfg.decoder_layers))

\* ---- student initialisation (bart_distiller) ---------------------------
\* init_student: every student parameter outside the decoder layers takes
\* the value of the teacher's parameter of the same name
init_student(w, n) ==
  [p \in DOMAIN w |->
     IF p[1] = "student" /\ p \notin LayerParams("student", n)
       THEN w[<<"teacher", p[2], p[3]>>]
       ELSE w[p]]

\* copy_decoder_layers: student decoder layer i takes the value of the
\* teacher's decoder layer l2copy[i]
copy_decoder_layers(w, n, l2copy) ==
  [p \in DOMAIN w |->
     IF p \in LayerParams("student", Min(n, Len(l2copy)))
       THEN w[<<"teacher", "layers", l2copy[p[3]] + 1>>]
       ELSE w[p]]

\* ---- freezing (lines 202-204, 237-243) ---------------------------------
freeze_part(g, params) ==
  [p \in DOMAIN g |-> IF p \in params THEN FALSE ELSE g[p]]

\* freezing that takes the whole student decoder instead of its embeddings
freeze_stuff_decoder(g, tn, sn) ==
  freeze_part(
    freeze_part(
      freeze_part(g, EncoderParams("student")),
      ModelParams("teacher", tn)),
    DecoderParams("student", sn))

\* freezing without line 239
freeze_stuff_noteacher(g, tn, sn) ==
  LET g1 == freeze_part(g, EncoderParams("student"))
      g3 == freeze_part(g1, SharedParams("student"))
      g4 == freeze_part(g3, EmbedPositionsParams("student"))
  IN  freeze_part(g4, EmbedTokensParams("student"))

freeze_stuff(g, tn, sn) ==
  LET g1 == freeze_part(g, EncoderParams("student"))
      g2 == freeze_part(g1, ModelParams("teacher", tn))
      g3 == freeze_part(g2, SharedParams("student"))
      g4 == freeze_part(g3, EmbedPositionsParams("student"))
  IN  freeze_part(g4, EmbedTokensParams("student"))

\* ---- tensors ------------------------------------------------------------
RECURSIVE Concat(_)
Concat(ss) == IF ss = <<>> THEN <<>> ELSE Head(ss) \o Concat(Tail(ss))

\* the entries of a batch x position x vocabulary tensor, in memory order
Flatten3(x) == Concat(Concat(x))

\* the logits a forward pass returns: batch x n x VocabSize, every entry is
\* its own value (seed + its memory offset)
LogitTensor(seed, bs, n) ==
  [b \in 1..bs |-> [p \in 1..n |-> [v \in 1..VocabSize |->
     seed + ((b - 1) * n + (p - 1)) * VocabSize + v]]]

\* x.size(-1)
LastDim(x) == IF x = <<>> \/ x[1] = <<>> THEN VocabSize ELSE Len(x[1][1])

\* mask[:, :, None].expand_as(x)
ExpandAs(m, x) ==
  [b \in DOMAIN x |-> [p \in DOMAIN x[b] |-> [v \in DOMAIN x[b][p] |-> m[b][p]]]]

\* torch.masked_select on the flattened entries: those whose mask entry is
\* TRUE, in memory order, as a one-dimensional tensor
RECURSIVE SelectEntries(_, _)
SelectEntries(xs, ms) ==
  IF xs = <<>> THEN <<>>
  ELSE (IF Head(ms) THEN <<Head(xs)>> ELSE <<>>) \o SelectEntries(Tail(xs), Tail(ms))

masked_select(x, m) == SelectEntries(Flatten3(x), Flatten3(m))

\* flat.view(-1, d)
View(flat, d) ==
  [i \in 1..(Len(flat) \div d) |-> SubSeq(flat, (i - 1) * d + 1, i * d)]

\* size() of a rows x d tensor
Size(rows, d) == <<Len(rows), d>>

\* transformers.modeling_bart.invert_mask: attention_mask.eq(0)
invert_mask(m) == [b \in DOMAIN m |-> [p \in DOMAIN m[b] |-> ~m[b][p]]]

RECURSIVE WeightedSquares(_, _, _)
WeightedSquares(s, t, k) ==
  IF k > Len(s) THEN 0
  ELSE k * (t[k] - s[k]) * (t[k] - s[k]) + WeightedSquares(s, t, k + 1)

\* self.ce_loss_fct(log_softmax(s / T), softmax(t / T)): the divergence of
\* torch.nn.KLDivLoss, kept as a deterministic function of the two selected
\* tensors that is zero when they are equal and depends on each entry and
\* on the order of the entries
ce_loss_fct(s_rows, t_rows) ==
  WeightedSquares(Concat(s_rows), Concat(t_rows), 1)

\* "mask is None": no mask was supplied
NoMask == <<>>

\* ---- calc_ce_loss (lines 263-288) --------------------------------------
\* calc_ce_loss without the inversion of line 266
calc_ce_loss_noinvert(m, s_logits, t_logits) ==
  LET sel_mask == ExpandAs(m, s_logits)
      s_flat == IF m # NoMask THEN masked_select(s_logits, sel_mask)
                ELSE Flatten3(s_logits)
      t_flat == IF m # NoMask THEN masked_select(t_logits, sel_mask)
                ELSE Flatten3(t_logits)
      s_logits_slct == View(s_flat, LastDim(s_logits))
      t_logits_slct == View(t_flat, LastDim(s_logits))
  IN  [loss_ce |-> ce_loss_fct(s_logits_slct, t_logits_slct)
                     * temperature * temperature,
       s_logits_slct |-> s_logits_slct,
       t_logits_slct |-> t_logits_slct,
       same_size |-> Size(t_logits_slct, LastDim(s_logits))
                       = Size(s_logits_slct, LastDim(s_logits))]

calc_ce_loss(m, s_logits, t_logits) ==
  LET sel_mask == ExpandAs(invert_mask(m), s_logits)
      s_flat == IF m # NoMask THEN masked_select(s_logits, sel_mask)
                ELSE Flatten3(s_logits)
      t_flat == IF m # NoMask THEN masked_select(t_logits, sel_mask)
                ELSE Flatten3(t_logits)
      s_logits_slct == View(s_flat, LastDim(s_logits))
      t_logits_slct == View(t_flat, LastDim(s_logits))
  IN  [loss_ce |-> ce_loss_fct(s_logits_slct, t_logits_slct)
                     * temperature * temperature,
       s_logits_slct |-> s_logits_slct,
       t_logits_slct |-> t_logits_slct,
       same_size |-> Size(t_logits_slct, LastDim(s_logits))
                       = Size(s_logits_slct, LastDim(s_logits))]

\* ---- values of the variables a specification does not use ---------------
TrainIdle ==
  /\ tpc = "off"
  /\ pad_token_id = None
  /\ batch = None
  /\ batch0 = None
  /\ y_ids = None
  /\ lm_labels = None
  /\ sloss = None
  /\ loss_ce = None
  /\ step_out = None
  /\ tape = {}
  /\ teacher_no_grad = TRUE
  /\ global_step = 0

LossIdle ==
  /\ lpc = "off"
  /\ mask = <<>>
  /\ sA = <<>>
  /\ tA = <<>>
  /\ sB = <<>>
  /\ tB = <<>>
  /\ outA = None
  /\ outB = None

EvalIdle ==
  /\ epc = "off"
  /\ cls = None
  /\ val_outputs = <<>>
  /\ test_outputs = <<>>
  /\ metrics = None
  /\ err = None

\* ---- SummarizationDistiller.__init__ (lines 208-235) -------------------
CtorInit ==
  /\ pc = "load"
  /\ teacher_cfg = None
  /\ student_cfg = None
  /\ student_updates = None
  /\ layers_to_copy = None
  /\ weights = <<>>
  /\ weights0 = <<>>
  /\ requires_grad = <<>>
  /\ saved = None
  /\ attached = FALSE
  /\ alpha_ce = None
  /\ alpha_mlm = None
  /\ TrainIdle
  /\ LossIdle
  /\ EvalIdle

\* line 211
LoadTeacher ==
  /\ pc = "load"
  /\ \E n \in 1..MaxTeacherLayers, ckpt \in 1..MaxCheckpoints :
       /\ teacher_cfg' = [decoder_layers |-> n]
       /\ weights' = from_pretrained(ckpt, n)
       /\ weights0' = from_pretrained(ckpt, n)
       /\ requires_grad' = [p \in ModelParams("teacher", n) |-> TRUE]
  /\ pc' = "select"
  /\ UNCHANGED <<student_cfg, student_updates, layers_to_copy, saved,
                 attached, alpha_ce, alpha_mlm>>
  /\ UNCHANGED <<trainVars, lossVars, evalVars>>

\* lines 212-216
ChooseLayers ==
  /\ pc = "select"
  /\ student_updates' = StudentUpdates(teacher_cfg)
  /\ layers_to_copy' = SelectLayers(teacher_cfg)
  /\ pc' = "build"
  /\ UNCHANGED <<teacher_cfg, student_cfg, weights, weights0, requires_grad,
                 saved, attached, alpha_ce, alpha_mlm>>
  /\ UNCHANGED <<trainVars, lossVars, evalVars>>

\* lines 217-220
BuildStudent ==
  /\ pc = "build"
  /\ student_cfg' = [decoder_layers |-> student_updates.decoder_layers]
  /\ weights' = Merge(weights, NewModel("student", student_updates.decoder_layers))
  /\ requires_grad' =
       Merge(requires_grad,
             [p \in ModelParams("student", student_updates.decoder_layers) |-> TRUE])
  /\ pc' = "init_student"
  /\ UNCHANGED <<teacher_cfg, student_updates, layers_to_copy, weights0,
                 saved, attached, alpha_ce, alpha_mlm>>
  /\ UNCHANGED <<trainVars, lossVars, evalVars>>

\* line 221
InitStudent ==
  /\ pc = "init_student"
  /\ weights' = init_student(weights, student_cfg.decoder_layers)
  /\ pc' = "copy"
  /\ UNCHANGED <<teacher_cfg, student_cfg, student_updates, layers_to_copy,
                 weights0, requires_grad, saved, attached, alpha_ce, alpha_mlm>>
  /\ UNCHANGED <<trainVars, lossVars, evalVars>>

\* line 222 with l2copy = the first layers of the teacher
CopyDecoderLayers_firstlayers ==
  /\ pc = "copy"
  /\ weights' = copy_decoder_layers(weights, student_cfg.decoder_layers,
                                    Range(Len(layers_to_copy)))
  /\ pc' = "save"
  /\ UNCHANGED <<teacher_cfg, student_cfg, student_updates, layers_to_copy,
                 weights0, requires_grad, saved, attached, alpha_ce, alpha_mlm>>
  /\ UNCHANGED <<trainVars, lossVars, evalVars>>

\* line 222
CopyDecoderLayers ==
  /\ pc = "copy"
  /\ weights' = copy_decoder_layers(weights, student_cfg.decoder_layers,
                                    layers_to_copy)
  /\ pc' = "save"
  /\ UNCHANGED <<teacher_cfg, student_cfg, student_updates, layers_to_copy,
                 weights0, requires_grad, saved, attached, alpha_ce, alpha_mlm>>
  /\ UNCHANGED <<trainVars, lossVars, evalVars>>

\* lines 223-224
SavePretrained ==
  /\ pc = "save"
  /\ saved' = [p \in ModelParams("student", student_cfg.decoder_layers) |-> weights[p]]
  /\ pc' = "assert"
  /\ UNCHANGED <<teacher_cfg, student_cfg, student_updates, layers_to_copy,
                 weights, weights0, requires_grad, attached, alpha_ce, alpha_mlm>>
  /\ UNCHANGED <<trainVars, lossVars, evalVars>>

\* lines 225-228: the base constructor, then the assertion on the depth
AssertDepth ==
  /\ pc = "assert"
  /\ pc' = IF student_cfg.decoder_layers = Len(layers_to_copy)
             THEN "freeze" ELSE "AssertionError"
  /\ UNCHANGED <<teacher_cfg, student_cfg, student_updates, layers_to_copy,
                 weights, weights0, requires_grad, saved, attached, alpha_ce,
                 alpha_mlm>>
  /\ UNCHANGED <<trainVars, lossVars, evalVars>>

\* lines 229-235
AttachAndFreeze ==
  /\ pc = "freeze"
  /\ attached' = TRUE
  /\ requires_grad' = freeze_stuff(requires_grad, teacher_cfg.decoder_layers,
                                   student_cfg.decoder_layers)
  /\ \E a \in AlphaValues, b \in AlphaValues :
       /\ alpha_mlm' = a
       /\ alpha_ce' = b
  /\ pc' = "ready"
  /\ UNCHANGED <<teacher_cfg, student_cfg, student_updates, layers_to_copy,
                 weights, weights0, saved>>
  /\ UNCHANGED <<trainVars, lossVars, evalVars>>

CtorNext ==
  \/ LoadTeacher
  \/ ChooseLayers
  \/ BuildStudent
  \/ InitStudent
  \/ CopyDecoderLayers
  \/ SavePretrained
  \/ AssertDepth
  \/ AttachAndFreeze

Spec == CtorInit /\ [][CtorNext]_vars

\* ---- two calls of calc_ce_loss on logits that differ in one position ----
CtorOff ==
  /\ pc = "off"
  /\ teacher_cfg = None
  /\ student_cfg = None
  /\ student_updates = None
  /\ layers_to_copy = None
  /\ weights = <<>>
  /\ weights0 = <<>>
  /\ requires_grad = <<>>
  /\ saved = None
  /\ attached = FALSE
  /\ alpha_ce = None
  /\ alpha_mlm = None

Masks(bs, n) == [1..bs -> [1..n -> BOOLEAN]]

LossInit ==
  /\ CtorOff
  /\ TrainIdle
  /\ EvalIdle
  /\ lpc = "inputs"
  /\ \E bs \in 1..MaxBatch, n \in 1..MaxSeq :
       /\ mask \in Masks(bs, n) \cup {NoMask}
       /\ \E s \in LogitSeeds, t \in LogitSeeds :
            /\ sA = LogitTensor(s, bs, n)
            /\ tA = LogitTensor(t, bs, n)
  /\ sB = sA
  /\ tB = tA
  /\ outA = None
  /\ outB = None

SetRow(x, b, p, r) ==
  [x EXCEPT ![b][p] = [v \in DOMAIN x[b][p] |-> r]]

\* the second call's logits get one position overwritten
Perturb ==
  /\ lpc = "inputs"
  /\ \E b \in DOMAIN sA :
       \E p \in DOMAIN sA[b], r \in PerturbValues :
         \/ sB' = SetRow(sA, b, p, r) /\ tB' = tA
         \/ tB' = SetRow(tA, b, p, r) /\ sB' = sA
  /\ lpc' = "perturbed"
  /\ UNCHANGED <<mask, sA, tA, outA, outB>>
  /\ UNCHANGED <<ctorVars, trainVars, evalVars>>

\* both calls run
CalcBoth ==
  /\ lpc \in {"inputs", "perturbed"}
  /\ outA' = calc_ce_loss(mask, sA, tA)
  /\ outB' = calc_ce_loss(mask, sB, tB)
  /\ lpc' = "done"
  /\ UNCHANGED <<mask, sA, tA, sB, tB>>
  /\ UNCHANGED <<ctorVars, trainVars, evalVars>>

LossNext ==
  \/ Perturb
  \/ CalcBoth

SpecLoss == LossInit /\ [][LossNext]_vars

\* ---- the distillation step (lines 245-261, 92-95) ----------------------
\* lines 246-250 without the clone: lm_labels is a view of y and the masked
\* assignment writes through to y
ShiftTargets_noclone(y, pad) ==
  [y_ids |-> [b \in DOMAIN y |-> SubSeq(y[b], 1, Len(y[b]) - 1)],
   lm_labels |-> [b \in DOMAIN y |->
                    [j \in 1..(Len(y[b]) - 1) |->
                       IF y[b][j + 1] = pad THEN IgnoreIndex ELSE y[b][j + 1]]],
   y |-> [b \in DOMAIN y |->
            [j \in DOMAIN y[b] |->
               IF j >= 2 /\ y[b][j] = pad THEN IgnoreIndex ELSE y[b][j]]]]

\* lines 246-250 (and 81-85): y_ids = y[:, :-1].contiguous(),
\* lm_labels = y[:, 1:].clone(), lm_labels[y[:, 1:] == pad] = -100.
\* Returns the two tensors and y as the step leaves it.
ShiftTargets(y, pad) ==
  LET y_slice == [b \in DOMAIN y |-> Tail(y[b])]
      clone == y_slice
  IN  [y_ids |-> [b \in DOMAIN y |-> SubSeq(y[b], 1, Len(y[b]) - 1)],
       lm_labels |-> [b \in DOMAIN clone |->
                        [j \in DOMAIN clone[b] |->
                           IF y_slice[b][j] = pad THEN IgnoreIndex
                           ELSE clone[b][j]]],
       y |-> y]

\* self.model.model.last_padding_mask after the student forward: TRUE at the
\* padding positions of the decoder input, None when it has no padding
last_padding_mask(ids, pad) ==
  IF \E b \in DOMAIN ids : \E j \in DOMAIN ids[b] : ids[b][j] = pad
    THEN [b \in DOMAIN ids |-> [j \in DOMAIN ids[b] |-> ids[b][j] = pad]]
    ELSE NoMask

\* the teacher is in eval mode (line 211): its logits are a function of its
\* weights
teacher_logits(w, bs, n) == LogitTensor(w[<<"teacher", "shared", 0>>] % 2, bs, n)

\* lines 260-261 with the two weights exchanged
BlendLosses_swapped(ce, sl, a_ce, a_mlm) ==
  <<ce * a_mlm + a_ce * sl, ce, sl>>

\* lines 260-261
BlendLosses(ce, sl, a_ce, a_mlm) ==
  <<ce * a_ce + a_mlm * sl, ce, sl>>

\* {name: loss for name, loss in zip(names, vals)}
ZipDict(names, vals) ==
  [k \in {names[i] : i \in 1..Min(Len(names), Len(vals))} |->
     vals[CHOOSE i \in 1..Len(names) : names[i] = k]]

\* lines 92-95
training_step(loss_tensors) ==
  [loss |-> loss_tensors[1], log |-> ZipDict(loss_names, loss_tensors)]

Batches ==
  UNION {[1..bs -> [1..len -> Tokens]] : bs \in 1..MaxBatch, len \in 1..MaxLen}

\* what __init__ leaves behind for a teacher of n decoder layers
Constructed(ckpt, n) ==
  LET cfg == [decoder_layers |-> n]
      su == StudentUpdates(cfg)
      sn == su.decoder_layers
      w1 == Merge(from_pretrained(ckpt, n), NewModel("student", sn))
      w3 == copy_decoder_layers(init_student(w1, sn), sn, SelectLayers(cfg))
  IN  [teacher_cfg |-> cfg,
       student_cfg |-> [decoder_layers |-> sn],
       student_updates |-> su,
       layers_to_copy |-> SelectLayers(cfg),
       weights |-> w3,
       weights0 |-> from_pretrained(ckpt, n),
       requires_grad |-> freeze_stuff([p \in DOMAIN w1 |-> TRUE], n, sn),
       saved |-> [p \in ModelParams("student", sn) |-> w3[p]]]

TrainInit ==
  /\ pc = "ready"
  /\ \E n \in TrainDepths :
       LET c == Constructed(1, n) IN
         /\ teacher_cfg = c.teacher_cfg
         /\ student_cfg = c.student_cfg
         /\ student_updates = c.student_updates
         /\ layers_to_copy = c.layers_to_copy
         /\ weights = c.weights
         /\ weights0 = c.weights0
         /\ requires_grad = c.requires_grad
         /\ saved = c.saved
  /\ attached = TRUE
  /\ alpha_ce \in AlphaValues
  /\ alpha_mlm \in AlphaValues
  /\ tpc = "idle"
  /\ pad_token_id \in Tokens
  /\ batch = None
  /\ batch0 = None
  /\ y_ids = None
  /\ lm_labels = None
  /\ sloss = None
  /\ loss_ce = None
  /\ step_out = None
  /\ tape = {}
  /\ teacher_no_grad = TRUE
  /\ global_step = 0
  /\ LossIdle
  /\ EvalIdle

\* SummarizationDistiller._step called by training_step on one batch
TrainingStep ==
  /\ tpc = "idle"
  /\ global_step < MaxSteps
  /\ \E y \in Batches, sl \in LossValues, ss \in LogitSeeds :
       \E sh \in {ShiftTargets(y, pad_token_id)} :
         \E m \in {last_padding_mask(sh.y_ids, pad_token_id)},
            slogits \in {LogitTensor(ss, Len(y), Len(y[1]) - 1)},
            tlogits \in {teacher_logits(weights, Len(y), Len(y[1]) - 1)} :
           \E ce \in {calc_ce_loss(m, slogits, tlogits)} :
             /\ batch0' = y
             /\ batch' = [decoder_input_ids |-> sh.y]
             /\ y_ids' = sh.y_ids
             /\ lm_labels' = sh.lm_labels
             /\ sloss' = sl
             /\ loss_ce' = ce.loss_ce
             /\ step_out' = training_step(
                               BlendLosses(ce.loss_ce, sl, alpha_ce, alpha_mlm))
  \* the student forward is recorded; the teacher forward (line 255) runs
  \* under torch.no_grad(), which records nothing
  /\ teacher_no_grad' = TRUE
  /\ tape' = {p \in DOMAIN requires_grad :
               /\ requires_grad[p]
               /\ p[1] = "student" \/ ~teacher_no_grad'}
  /\ tpc' = "stepped"
  /\ UNCHANGED <<pad_token_id, global_step>>
  /\ UNCHANGED <<ctorVars, lossVars, evalVars>>

\* backward on step_out.loss and the optimizer update over the parameters of
\* self.model (the attached teacher included): a parameter is written only
\* when backward gave it a gradient.  The step's tensors are dropped.
OptimizerStep ==
  /\ tpc = "stepped"
  /\ weights' = [p \in DOMAIN weights |->
                   IF p \in tape THEN weights[p] - 1
                   ELSE weights[p]]
  /\ global_step' = global_step + 1
  /\ tpc' = "idle"
  /\ batch' = None
  /\ batch0' = None
  /\ y_ids' = None
  /\ lm_labels' = None
  /\ sloss' = None
  /\ loss_ce' = None
  /\ step_out' = None
  /\ tape' = {}
  /\ UNCHANGED <<pad_token_id, teacher_no_grad>>
  /\ UNCHANGED <<pc, teacher_cfg, student_cfg, student_updates, layers_to_copy,
                 weights0, requires_grad, saved, attached, alpha_ce, alpha_mlm>>
  /\ UNCHANGED <<lossVars, evalVars>>

TrainNext ==
  \/ TrainingStep
  \/ OptimizerStep

SpecTrain == TrainInit /\ [][TrainNext]_vars

\* ---- the evaluation hooks (lines 80-141) -------------------------------
\* SummarizationTrainer._step, lines 88-90: a 1-tuple
TrainerStep(loss) == <<loss>>

\* calculate_rouge, lines 37-47: one value per ROUGE key
calculate_rouge(r) == [k \in {ROUGE_KEYS[i] : i \in DOMAIN ROUGE_KEYS} |-> r]

\* _generative_step, lines 109-122
generative_step(loss_tensors, gen_time, r) ==
  Merge(ZipDict(loss_names, loss_tensors),
        Merge([gen_time |-> gen_time], calculate_rouge(r)))

\* the keys validation_end reads from every output, in the order it reads
EndKeys == loss_names \o ROUGE_KEYS \o <<"gen_time">>

\* the first key of keys that some output lacks, or None
FirstMissing(outputs, keys) ==
  LET bad == {i \in DOMAIN keys :
                \E j \in DOMAIN outputs : keys[i] \notin DOMAIN outputs[j]}
  IN  IF bad = {} THEN None
      ELSE keys[CHOOSE i \in bad : \A j \in bad : i <= j]

RECURSIVE SumOf(_, _)
SumOf(outputs, k) ==
  IF outputs = <<>> THEN 0 ELSE Head(outputs)[k] + SumOf(Tail(outputs), k)

\* validation_end, lines 101-104: the mean of every key over the outputs,
\* as <<sum, count>>, under the key <<prefix, k>>
EndMetrics(outputs, prefix) ==
  [pk \in {<<prefix, EndKeys[i]>> : i \in DOMAIN EndKeys} |->
     <<SumOf(outputs, pk[2]), Len(outputs)>>]

EvalInit ==
  /\ pc = "off"
  /\ teacher_cfg = None
  /\ student_cfg = None
  /\ student_updates = None
  /\ layers_to_copy = None
  /\ weights = <<>>
  /\ weights0 = <<>>
  /\ requires_grad = <<>>
  /\ saved = None
  /\ attached = FALSE
  /\ TrainIdle
  /\ LossIdle
  /\ epc = "run"
  /\ \/ /\ cls = "SummarizationTrainer"
        /\ alpha_ce = None
        /\ alpha_mlm = None
     \/ /\ cls = "SummarizationDistiller"
        /\ alpha_ce \in AlphaValues
        /\ alpha_mlm \in AlphaValues
  /\ val_outputs = <<>>
  /\ test_outputs = <<>>
  /\ metrics = [train |-> <<>>, val |-> <<>>, test |-> <<>>]
  /\ err = None

\* what self._step(batch) returns to _generative_step
StepLosses(c, sl, ce) ==
  IF c = "SummarizationDistiller"
    THEN BlendLosses(ce, sl, alpha_ce, alpha_mlm)
    ELSE TrainerStep(sl)

\* validation_step, lines 97-98
ValidationStep ==
  /\ epc = "run"
  /\ Len(val_outputs) < MaxOutputs
  /\ \E sl \in LossValues, ce \in LossValues :
       val_outputs' =
         Append(val_outputs, generative_step(StepLosses(cls, sl, ce), 1, 1))
  /\ UNCHANGED <<epc, cls, test_outputs, metrics, err>>
  /\ UNCHANGED <<ctorVars, trainVars, lossVars>>

\* test_step, lines 124-125
TestStep ==
  /\ epc = "run"
  /\ Len(test_outputs) < MaxOutputs
  /\ \E sl \in LossValues, ce \in LossValues :
       test_outputs' =
         Append(test_outputs, generative_step(StepLosses(cls, sl, ce), 1, 1))
  /\ UNCHANGED <<epc, cls, val_outputs, metrics, err>>
  /\ UNCHANGED <<ctorVars, trainVars, lossVars>>

\* validation_end(outputs, prefix), lines 100-107, as the state it leaves
validation_end(outputs, prefix) ==
  LET missing == FirstMissing(outputs, EndKeys) IN
    IF missing # None
      THEN /\ err' = missing
           /\ epc' = "KeyError"
           /\ metrics' = metrics
      ELSE /\ metrics' = [metrics EXCEPT
                            ![prefix] = Append(@, EndMetrics(outputs, prefix))]
           /\ UNCHANGED <<err, epc>>

EpochsLeft == Len(metrics["val"]) + Len(metrics["test"]) < MaxEpochs

\* the framework calls validation_end with the epoch's outputs
ValidationEnd ==
  /\ epc = "run"
  /\ val_outputs # <<>>
  /\ EpochsLeft
  /\ validation_end(val_outputs, "val")
  /\ val_outputs' = <<>>
  /\ UNCHANGED <<cls, test_outputs>>
  /\ UNCHANGED <<ctorVars, trainVars, lossVars>>

\* test_end, lines 127-128
TestEnd ==
  /\ epc = "run"
  /\ test_outputs # <<>>
  /\ EpochsLeft
  /\ validation_end(test_outputs, "test")
  /\ test_outputs' = <<>>
  /\ UNCHANGED <<cls, val_outputs>>
  /\ UNCHANGED <<ctorVars, trainVars, lossVars>>

\* test_epoch_end, lines 130-141: reads preds and target of every output,
\* then calls test_end
TestEpochEnd ==
  /\ epc = "run"
  /\ test_outputs # <<>>
  /\ EpochsLeft
  /\ LET missing == FirstMissing(test_outputs, <<"preds", "target">>) IN
       IF missing # None
         THEN /\ err' = missing
              /\ epc' = "KeyError"
              /\ metrics' = metrics
         ELSE validation_end(test_outputs, "test")
  /\ test_outputs' = <<>>
  /\ UNCHANGED <<cls, val_outputs>>
  /\ UNCHANGED <<ctorVars, trainVars, lossVars>>

EvalNext ==
  \/ ValidationStep
  \/ TestStep
  \/ ValidationEnd
  \/ TestEnd
  \/ TestEpochEnd

SpecEval == EvalInit /\ [][EvalNext]_vars

\* ======================== the claims ====================================
Selected == pc \notin {"off", "load", "select"}

Copied == pc \in {"save", "assert", "freeze", "ready", "AssertionError"}

IsEven(n) == n % 2 = 0

DepthMatches ==
  /\ Len(layers_to_copy) = student_updates.decoder_layers
  /\ \A i \in 1..Len(layers_to_copy) :
       layers_to_copy[i] \in 0..(teacher_cfg.decoder_layers - 1)
  /\ pc # "AssertionError"

\* C1: for every teacher decoder depth, even or odd, the list
\* layers_to_copy has exactly student-depth entries, every entry lies in
\* [0, teacher depth), and the assertion of line 228 never fails.
C1_EveryDepth == Selected => DepthMatches

\* the depths for which the selection does fit the student: the even ones,
\* and 13, whose student depth is 6
EvenDepthMatches ==
  (Selected /\ (IsEven(teacher_cfg.decoder_layers)
                  \/ teacher_cfg.decoder_layers = 13))
    => DepthMatches

\* for every other odd depth the list is one entry longer than the student
OddDepthOneMore ==
  (Selected /\ ~IsEven(teacher_cfg.decoder_layers)
            /\ teacher_cfg.decoder_layers # 13)
    => Len(layers_to_copy) = student_updates.decoder_layers + 1

\* C2: when the student depth (teacher depth // 2) is 6 the selected indices
\* are exactly [0, 2, 4, 7, 9, 11]; for every other teacher depth the entry
\* at (0-based) position i is 2*i; depth 16 gives [0, 2, ..., 14].
C2_SelectionPolicy ==
  Selected =>
    /\ (teacher_cfg.decoder_layers \div 2 = 6)
         => layers_to_copy = <<0, 2, 4, 7, 9, 11>>
    /\ (teacher_cfg.decoder_layers \div 2 # 6)
         => \A i \in 1..Len(layers_to_copy) : layers_to_copy[i] = 2 * (i - 1)
    /\ (teacher_cfg.decoder_layers = 12)
         => layers_to_copy = <<0, 2, 4, 7, 9, 11>>
    /\ (teacher_cfg.decoder_layers = 16)
         => layers_to_copy = <<0, 2, 4, 6, 8, 10, 12, 14>>

C2_Witness ==
  /\ pc = "build"
  /\ teacher_cfg.decoder_layers = 16
  /\ Len(layers_to_copy) = 8

\* C3: after init_student and copy_decoder_layers, the student's encoder
\* parameters equal the teacher's, student decoder layer i has the
\* parameters of teacher decoder layer layers_to_copy[i], and the teacher's
\* parameters are what they were when loaded.
C3_StudentInitialised ==
  Copied =>
    /\ \A p \in EncoderParams("student") :
         weights[p] = weights[<<"teacher", p[2], p[3]>>]
    /\ \A i \in 1..student_cfg.decoder_layers :
         weights[<<"student", "layers", i>>]
           = weights[<<"teacher", "layers", layers_to_copy[i] + 1>>]
    /\ \A p \in ModelParams("teacher", teacher_cfg.decoder_layers) :
         weights[p] = weights0[p]

C3_Witness ==
  /\ pc = "save"
  /\ teacher_cfg.decoder_layers = 12
  /\ weights[<<"student", "layers", 4>>] = weights[<<"teacher", "layers", 8>>]
  /\ weights[<<"student", "layers", 4>>] # 0

\* C4: once __init__ has returned, gradient tracking is disabled for every
\* parameter of the teacher, of the student encoder, of the student shared
\* embedding and of the student decoder's embed_positions and embed_tokens,
\* it is enabled for every student decoder layer, and no other parameter's
\* flag was changed (every flag is TRUE on construction).
C4_FreezePolicy ==
  (pc = "ready") =>
    \A p \in DOMAIN requires_grad :
      requires_grad[p] =
        (/\ p[1] = "student"
         /\ p[2] \notin {"encoder", "shared", "embed_positions", "embed_tokens"})

C4_Witness ==
  /\ pc = "ready"
  /\ student_cfg.decoder_layers >= 2
  /\ \A i \in 1..student_cfg.decoder_layers :
       requires_grad[<<"student", "layers", i>>]
  /\ ~requires_grad[<<"teacher", "layers", 1>>]
  /\ ~requires_grad[<<"student", "shared", 0>>]
  /\ requires_grad[<<"student", "layernorm_embedding", 0>>]

\* C8: the student is persisted before any teacher weight is copied into
\* it: the save precedes init_student and copy_decoder_layers, so what is
\* persisted is the empty student.
C8_SavedBeforeCopy ==
  /\ (pc \in {"init_student", "copy"}) => saved # None
  /\ (Copied /\ pc # "save") => \A p \in DOMAIN saved : saved[p] = 0

\* the <<batch, position>> pairs of x in memory order
Positions(x) == Concat([b \in DOMAIN x |-> [p \in DOMAIN x[b] |-> <<b, p>>]])

\* the logit rows of x at the positions that are not padding, in order
RealRows(x, m) ==
  LET keep(bp) == ~m[bp[1]][bp[2]]
      ps == SelectSeq(Positions(x), keep)
  IN  [i \in DOMAIN ps |-> x[ps[i][1]][ps[i][2]]]

SameOffPadding(x, y, m) ==
  \A b \in DOMAIN x : \A p \in DOMAIN x[b] : ~m[b][p] => x[b][p] = y[b][p]

\* C7: with a padding mask (TRUE at padding) the rows selected from student
\* and teacher logits are exactly the non-padding positions, in the same
\* order for both; two calls whose logits differ only at padding positions
\* return the same soft-target loss; the selected student and teacher
\* tensors have equal shape.
C7_MaskedSelection ==
  (lpc = "done") =>
    /\ outA.same_size /\ outB.same_size
    /\ Len(outA.s_logits_slct) = Len(outA.t_logits_slct)
    /\ \A i \in DOMAIN outA.s_logits_slct :
         Len(outA.s_logits_slct[i]) = Len(outA.t_logits_slct[i])
    /\ (mask # NoMask) =>
         /\ outA.s_logits_slct = RealRows(sA, mask)
         /\ outA.t_logits_slct = RealRows(tA, mask)
         /\ outB.s_logits_slct = RealRows(sB, mask)
         /\ outB.t_logits_slct = RealRows(tB, mask)
         /\ (SameOffPadding(sA, sB, mask) /\ SameOffPadding(tA, tB, mask))
              => outA.loss_ce = outB.loss_ce

C7_Witness ==
  /\ lpc = "done"
  /\ mask # NoMask
  /\ sA # sB
  /\ SameOffPadding(sA, sB, mask)
  /\ Len(outA.s_logits_slct) >= 2
  /\ Len(outA.s_logits_slct) < Len(Positions(sA))
  /\ outA.loss_ce = outB.loss_ce

\* the state __init__ reaches is the state the training run starts from
ReadyIsConstructed ==
  (pc = "ready" /\ tpc = "off") =>
    \E ckpt \in 1..MaxCheckpoints :
      LET c == Constructed(ckpt, teacher_cfg.decoder_layers) IN
        /\ student_cfg = c.student_cfg
        /\ student_updates = c.student_updates
        /\ layers_to_copy = c.layers_to_copy
        /\ weights = c.weights
        /\ weights0 = c.weights0
        /\ requires_grad = c.requires_grad
        /\ saved = c.saved

TeacherParams == ModelParams("teacher", teacher_cfg.decoder_layers)

\* C5: after any sequence of distillation steps and optimizer updates the
\* teacher's parameters have the values they were loaded with; the teacher
\* forward runs in a no-gradient scope, every teacher parameter is
\* non-trainable, and no backward pass reaches a teacher parameter.
C5_TeacherNeverMutated ==
  /\ \A p \in TeacherParams :
       /\ weights[p] = weights0[p]
       /\ ~requires_grad[p]
       /\ p \notin tape
  /\ teacher_no_grad

C5_Witness ==
  /\ global_step = MaxSteps
  /\ tpc = "idle"
  /\ \E i \in 1..student_cfg.decoder_layers :
       weights[<<"student", "layers", i>>]
         # weights[<<"teacher", "layers", layers_to_copy[i] + 1>>]
  /\ \A p \in TeacherParams : weights[p] = weights0[p]

\* C6: the first returned loss is alpha_ce * soft_target_loss + alpha_mlm *
\* supervised_loss, the other two are those two losses; with weights (1, 0)
\* the total is the soft-target loss, with (0, 1) the supervised loss;
\* training_step returns the total as "loss" and logs the three values as
\* loss, ce_loss, mlm_loss.
C6_BlendedLoss ==
  (tpc = "stepped") =>
    /\ step_out.loss = alpha_ce * loss_ce + alpha_mlm * sloss
    /\ DOMAIN step_out.log = {"loss", "ce_loss", "mlm_loss"}
    /\ step_out.log["loss"] = step_out.loss
    /\ step_out.log["ce_loss"] = loss_ce
    /\ step_out.log["mlm_loss"] = sloss
    /\ (alpha_ce = 1 /\ alpha_mlm = 0) => step_out.loss = loss_ce
    /\ (alpha_ce = 0 /\ alpha_mlm = 1) => step_out.loss = sloss

C6_Witness ==
  /\ tpc = "stepped"
  /\ alpha_ce = 4
  /\ alpha_mlm = 1
  /\ loss_ce > 0
  /\ step_out.loss = 4 * loss_ce + sloss

\* C9: for target ids y of length L the decoder input is y without its last
\* position, the labels are y without its first position with -100 exactly
\* where y holds the padding token, and the batch's target ids are left as
\* they were.
C9_ShiftedTargets ==
  (tpc = "stepped") =>
    /\ DOMAIN y_ids = DOMAIN batch0
    /\ DOMAIN lm_labels = DOMAIN batch0
    /\ \A b \in DOMAIN batch0 :
         /\ Len(y_ids[b]) = Len(batch0[b]) - 1
         /\ Len(lm_labels[b]) = Len(batch0[b]) - 1
         /\ \A j \in 1..(Len(batch0[b]) - 1) :
              /\ y_ids[b][j] = batch0[b][j]
              /\ (lm_labels[b][j] = IgnoreIndex) <=> (batch0[b][j + 1] = pad_token_id)
              /\ (batch0[b][j + 1] # pad_token_id)
                   => lm_labels[b][j] = batch0[b][j + 1]
    /\ batch.decoder_input_ids = batch0

C9_Witness ==
  /\ tpc = "stepped"
  /\ Len(batch0) = 2
  /\ Len(batch0[1]) = 2
  /\ batch0[1][2] = pad_token_id
  /\ batch0[2][2] # pad_token_id
  /\ lm_labels = <<(<<IgnoreIndex>>), (<<batch0[2][2]>>)>>
  /\ y_ids = <<(<<batch0[1][1]>>), (<<batch0[2][1]>>)>>
  /\ batch.decoder_input_ids = batch0

\* C10: for both classes every output of validation_step and test_step has
\* every key the end-of-epoch hooks read from it (each name of loss_names,
\* each ROUGE key and gen_time; preds and target for test_epoch_end), so no
\* hook fails on a missing key.
C10_NoMissingKey ==
  (epc # "off") =>
    /\ err = None
    /\ epc # "KeyError"
    /\ \A j \in DOMAIN val_outputs :
         \A i \in DOMAIN EndKeys : EndKeys[i] \in DOMAIN val_outputs[j]
    /\ \A j \in DOMAIN test_outputs :
         /\ \A i \in DOMAIN EndKeys : EndKeys[i] \in DOMAIN test_outputs[j]
         /\ {"preds", "target"} \subseteq DOMAIN test_outputs[j]

====
